---- MODULE Spec2Model ----
(***************************************************************************)
(* vite-plugin-image-gen: the preset engine, the identity generator, the   *)
(* single-flight request cache, the on-disk cache store and the cache      *)
(* reconciler of src/api.ts, driven by the plugin hooks of src/index.ts.   *)
(***************************************************************************)
EXTENDS Integers, Sequences, FiniteSets, TLC

(***************************************************************************)
(* JavaScript values.  A value is a pair <<typeof, payload>>; an object is *)
(* the sequence of its <<key, value>> properties in insertion order, which *)
(* is the order Object.entries, the spread operator and JSON.stringify     *)
(* walk.  A number is a reduced fraction <<n, d>>: the quotients the       *)
(* presets form are compared and printed, and two quotients of small       *)
(* integers are the same double exactly when they are the same fraction.   *)
(***************************************************************************)
RECURSIVE GCD(_, _)
GCD(a, b) == IF b = 0 THEN a ELSE GCD(b, a % b)

Frac(n, d) == <<n \div GCD(n, d), d \div GCD(n, d)>>

Num(n) == <<"number", <<n, 1>>>>
Str(s) == <<"string", s>>
Bool(b) == <<"boolean", b>>
Fn(name) == <<"function", name>>
Obj(props) == <<"object", props>>
Arr(elems) == <<"array", elems>>
Undefined == <<"undefined", "undefined">>

NumDiv(a, b) == <<"number", Frac(a[2][1] * b[2][2], a[2][2] * b[2][1])>>
NumLess(a, b) == a[2][1] * b[2][2] < b[2][1] * a[2][2]
\* Math.floor(quantity * n)
FloorMul(q, n) == Num((q[2][1] * n[2][1]) \div (q[2][2] * n[2][2]))

\* obj[key], undefined when the object has no such property
Get(o, key) ==
  LET hit == {i \in 1..Len(o[2]) : o[2][i][1] = key}
  IN  IF hit = {} THEN Undefined ELSE o[2][CHOOSE i \in hit : TRUE][2]

\* obj[key] = v: an own property keeps its place, a new one is appended
Set(o, key, v) ==
  IF \E i \in 1..Len(o[2]) : o[2][i][1] = key
    THEN Obj([i \in 1..Len(o[2]) |->
               IF o[2][i][1] = key THEN <<key, v>> ELSE o[2][i]])
    ELSE Obj(Append(o[2], <<key, v>>))

\* Object.keys(obj)[0]
FirstKey(o) == o[2][1][1]

\* !!v for the values the presets test
Truthy(v) ==
  CASE v[1] = "undefined" -> FALSE
    [] v[1] = "number" -> v[2][1] # 0
    [] v[1] = "boolean" -> v[2]
    [] v[1] = "string" -> v[2] # ""
    [] OTHER -> TRUE

\* Number.prototype.toString: injective on the fractions, as on the doubles
NumToString(q) ==
  IF q[2] = 1 THEN ToString(q[1])
  ELSE ToString(q[1]) \o "/" \o ToString(q[2])

\* String(v), as a template literal `${v}` converts v
TemplateString(v) ==
  CASE v[1] = "number" -> NumToString(v[2])
    [] v[1] = "string" -> v[2]
    [] v[1] = "boolean" -> (IF v[2] THEN "true" ELSE "false")
    [] v[1] = "object" -> "[object Object]"
    [] v[1] = "function" -> v[2]
    [] OTHER -> "undefined"

RECURSIVE JSONStringify(_)
RECURSIVE JSONMembers(_, _)
\* the members of an object: a property whose value is undefined or a
\* function is left out
JSONMembers(props, first) ==
  IF props = <<>> THEN ""
  ELSE LET p == Head(props)
       IN  IF p[2][1] \in {"undefined", "function"}
             THEN JSONMembers(Tail(props), first)
             ELSE (IF first THEN "" ELSE ",")
                    \o "\"" \o p[1] \o "\":" \o JSONStringify(p[2])
                    \o JSONMembers(Tail(props), FALSE)
JSONStringify(v) ==
  CASE v[1] = "number" -> NumToString(v[2])
    [] v[1] = "string" -> "\"" \o v[2] \o "\""
    [] v[1] = "boolean" -> (IF v[2] THEN "true" ELSE "false")
    [] v[1] = "object" -> "{" \o JSONMembers(v[2], TRUE) \o "}"
    [] OTHER -> "null"

isObject(v) == v[1] = "object"

RECURSIVE cleanObject(_)
RECURSIVE cleanProps(_)
cleanProps(props) ==
  IF props = <<>> THEN <<>>
  ELSE LET p == Head(props)
       IN  IF p[2][1] = "undefined" THEN cleanProps(Tail(props))
           ELSE IF isObject(p[2])
             THEN <<<<p[1], cleanObject(p[2])>>>> \o cleanProps(Tail(props))
             ELSE <<p>> \o cleanProps(Tail(props))
cleanObject(o) == Obj(cleanProps(o[2]))

\* x(quantity, n)
x(quantity, n) == IF Truthy(n) THEN FloorMul(quantity, n) ELSE Undefined

mimeTypeFor(format) ==
  IF format = "original" THEN Undefined
  ELSE IF format = "jpg" THEN Str("jpeg")
  ELSE Str("image/" \o format)

(***************************************************************************)
(* The preset engine (densityPreset, widthPreset).  A preset spec is a     *)
(* record: its condition, its args (an object) and its generate closure,   *)
(* kept as the variables the closure captured.  An image is a sharp        *)
(* pipeline: the input path and the operations queued on it.               *)
(***************************************************************************)
\* the array left in the order it was given
asGiven(elems) == elems

\* array.sort((a, b) => a - b)
sortAscending(elems) == SortSeq(elems, NumLess)

\* density.reduce((a, v) => (v >= a ? v : a), 1)
RECURSIVE reduceHighest(_, _)
reduceHighest(elems, a) ==
  IF elems = <<>> THEN a
  ELSE reduceHighest(Tail(elems),
                     IF ~NumLess(Head(elems), a) THEN Head(elems) ELSE a)

\* const { name = false } = props
DefaultFalse(v) == IF v[1] = "undefined" THEN Bool(FALSE) ELSE v

formatKeyOf(format) ==
  IF format = Str("original") THEN "original" ELSE FirstKey(format)
formatValueOf(format) ==
  IF format = Str("original") THEN Undefined
  ELSE Get(format, formatKeyOf(format))

densityArgs(props, density, highestDensity) ==
  Set(Set(Set(props, "preset", Str("density")),
          "density", NumDiv(density, highestDensity)),
      "format", Obj(<<<<"type", Str(formatKeyOf(Get(props, "format")))>>,
                      <<"options", formatValueOf(Get(props, "format"))>>>>))

densityPreset(props) ==
  LET sorted == sortAscending(Get(props, "density")[2])
      highestDensity == reduceHighest(sorted, Num(1))
  IN  [inferDimensions |-> DefaultFalse(Get(props, "inferDimensions")),
       isBackgroundImage |-> DefaultFalse(Get(props, "isBackgroundImage")),
       image |->
         [type |-> mimeTypeFor(formatKeyOf(Get(props, "format"))),
          specs |->
            [i \in 1..Len(sorted) |->
              [condition |-> TemplateString(sorted[i]) \o "x",
               args |-> cleanObject(densityArgs(props, sorted[i], highestDensity)),
               generate |->
                 [preset |-> "density",
                  baseWidth |-> Get(props, "baseWidth"),
                  baseHeight |-> Get(props, "baseHeight"),
                  highestDensity |-> highestDensity,
                  formatKey |-> formatKeyOf(Get(props, "format")),
                  formatValue |-> formatValueOf(Get(props, "format")),
                  width |-> Undefined,
                  density |-> Undefined,
                  resizeOptions |-> Get(props, "resizeOptions"),
                  withImage |-> Get(props, "withImage")]]]]]

\* the widths sorted as texts, as array.sort() with no comparator sorts
sortedAsText(widths) ==
  IF widths = Str("original") THEN <<Str("original")>>
  ELSE SortSeq(widths[2],
               LAMBDA a, b :
                 \/ Len(NumToString(a[2])) > Len(NumToString(b[2]))
                 \/ /\ Len(NumToString(a[2])) = Len(NumToString(b[2]))
                    /\ NumLess(a, b))

\* props.widths == 'original' ? ['original'] : props.widths, then sorted by
\* a comparator that answers 0 when either side is a string
sortedWidths(widths) ==
  IF widths = Str("original") THEN <<Str("original")>>
  ELSE sortAscending(widths[2])

\* props.widths === 'original' ? undefined : props.density ?? 1
widthDensity(props) ==
  IF Get(props, "widths") = Str("original") THEN Undefined
  ELSE IF Get(props, "density") = Undefined THEN Num(1)
  ELSE Get(props, "density")

widthArgs(props, width) ==
  Obj(<<<<"preset", Str("width")>>,
        <<"format", Obj(<<<<"type", Str(formatKeyOf(Get(props, "format")))>>,
                          <<"options", formatValueOf(Get(props, "format"))>>>>)>>,
        <<"width", width>>,
        <<"density", widthDensity(props)>>,
        <<"resizeOptions", Get(props, "resizeOptions")>>>>)

widthPreset(props) ==
  LET widths == sortedWidths(Get(props, "widths"))
  IN  [inferDimensions |-> DefaultFalse(Get(props, "inferDimensions")),
       isBackgroundImage |-> Undefined,
       image |->
         [type |-> mimeTypeFor(formatKeyOf(Get(props, "format"))),
          specs |->
            [i \in 1..Len(widths) |->
              [condition |-> IF widths[i] = Str("original") THEN ""
                             ELSE TemplateString(widths[i]) \o "w",
               args |-> cleanObject(widthArgs(props, widths[i])),
               generate |->
                 [preset |-> "width",
                  baseWidth |-> Undefined,
                  baseHeight |-> Undefined,
                  highestDensity |-> Undefined,
                  formatKey |-> formatKeyOf(Get(props, "format")),
                  formatValue |-> formatValueOf(Get(props, "format")),
                  width |-> widths[i],
                  density |-> widthDensity(props),
                  resizeOptions |-> Get(props, "resizeOptions"),
                  withImage |-> Get(props, "withImage")]]]]]

\* sharp(path): a pipeline with nothing queued
loadImage(url) == [input |-> url, ops |-> <<>>]

\* ...resizeOptions spread over the literal's own keys
spreadOver(o, more) ==
  IF more[1] # "object" THEN o
  ELSE LET RECURSIVE put(_, _)
           put(acc, ps) == IF ps = <<>> THEN acc
                           ELSE put(Set(acc, Head(ps)[1], Head(ps)[2]), Tail(ps))
       IN  put(o, more[2])

\* the hook's mark on the pipeline: withImage?.(img, args) ?? img
hooked(img, withImage) ==
  IF withImage[1] = "function"
    THEN [img EXCEPT !.ops = Append(@, <<"withImage", Str(withImage[2])>>)]
    ELSE img

\* the generate closure of a density spec, applied to (img, args);
\* intrinsicWidth is what img.metadata() answers for the source
generateDensity(g, img, args, intrinsicWidth) ==
  LET density == Get(args, "density")
      type == Get(Get(args, "format"), "type")
      options == Get(Get(args, "format"), "options")
      img1 == IF type # Str("original")
                THEN [img EXCEPT !.ops = Append(@, <<"toFormat", Obj(<<<<"type", type>>, <<"options", options>>>>)>>)]
                ELSE img
      img2 ==
        IF ~Truthy(density) THEN img1
        ELSE IF Truthy(g.baseHeight) \/ Truthy(g.baseWidth)
          THEN [img1 EXCEPT !.ops = Append(@, <<"resize",
                 spreadOver(
                   Obj(<<<<"width", x(NumDiv(density, g.highestDensity), g.baseWidth)>>,
                         <<"height", x(NumDiv(density, g.highestDensity), g.baseHeight)>>,
                         <<"withoutEnlargement", Bool(TRUE)>>>>),
                   g.resizeOptions)>>)]
          ELSE [img1 EXCEPT !.ops = Append(@, <<"resize",
                 Obj(<<<<"width", x(density, intrinsicWidth)>>>>)>>)]
  IN  hooked(img2, g.withImage)

\* the generate closure of a width spec
generateWidth(g, img, args) ==
  LET img1 == IF g.formatKey # "original"
                THEN [img EXCEPT !.ops = Append(@, <<"toFormat", Obj(<<<<"type", Str(g.formatKey)>>, <<"options", g.formatValue>>>>)>>)]
                ELSE img
      img2 ==
        IF g.width # Str("original") /\ g.width[1] = "number"
          THEN [img1 EXCEPT !.ops = Append(@, <<"resize",
                 spreadOver(
                   Obj(<<<<"width", x(g.width, g.density)>>,
                         <<"withoutEnlargement", Bool(TRUE)>>>>),
                   g.resizeOptions)>>)]
          ELSE img1
  IN  hooked(img2, g.withImage)

generate(g, img, args, intrinsicWidth) ==
  IF g.preset = "density" THEN generateDensity(g, img, args, intrinsicWidth)
  ELSE generateWidth(g, img, args)

(***************************************************************************)
(* The identity generator.  A SHA-256 digest cut to 8 hex characters is    *)
(* kept as the text it digests: distinct texts are distinct digests        *)
(* (section 4.2 of the design treats the digest as collision-resistant).   *)
(***************************************************************************)
Digest8(text) == "sha256[" \o text \o "]"

\* createHash('sha256').update(content).digest('hex').slice(0, 8)
getAssetHash(content) == Digest8(content)

\* args.format.type !== 'original' ? `.${args.format}` : ''
idExtension(args) ==
  IF Get(Get(args, "format"), "type") # Str("original")
    THEN "." \o TemplateString(Get(args, "format"))
    ELSE ""

\* createHash('sha256').update(url).update(JSON.stringify(args))
idBase(url, args) == Digest8(url \o JSONStringify(args))

generateImageID(url, args) == idBase(url, args) \o idExtension(args)

(***************************************************************************)
(* Texts that pass through encodeURI are kept as the sequence of the       *)
(* pieces they were concatenated from; Flat is the string itself.  The     *)
(* digests, the paths and the file names of this configuration hold only   *)
(* characters encodeURI leaves alone; "[", "]" and the blank it escapes.   *)
(***************************************************************************)
RECURSIVE Flat(_)
Flat(t) == IF t = <<>> THEN "" ELSE Head(t) \o Flat(Tail(t))

encodeURIPiece(piece) ==
  IF piece = ".[object Object]" THEN ".%5Bobject%20Object%5D" ELSE piece

encodeURI(t) == [i \in 1..Len(t) |-> encodeURIPiece(t[i])]

(***************************************************************************)
(* The configuration of a session (configResolved) and its environment.    *)
(***************************************************************************)
VIRTUAL_ID == "/@imagepresets"
root == "/app"
base == "/"
assetsDir == "assets/images"
urlParam == "preset"

\* the files of the project, and the ways a module names them
SourceFiles == {"/app/photo.png"}
RequestPaths == {"/app/photo.png", "photo.png"}

\* path.resolve(config.root, filename)
resolve(dir, filename) ==
  IF filename \in SourceFiles THEN filename ELSE dir \o "/" \o filename

\* basename(sourceFilename, extname(sourceFilename))
basename(file) == IF file = "/app/photo.png" THEN "photo" ELSE "file"

\* path.join(dir, filename)
join(dir, filename) == dir \o "/" \o filename

\* what sharp reads from the header of the input as the project holds it:
\* metadata().format and metadata().width
metadataFormat(file) == IF file = "/app/photo.png" THEN "png" ELSE "unknown"
metadataWidth(file) == Num(1000)

allowedFormats ==
  {"avif", "gif", "heif", "jpeg", "jpg", "png", "tif", "tiff", "webp"}

\* the inferred format returned as it is, heif too
asInferred(format) ==
  IF format = "" \/ format \notin allowedFormats THEN "error" ELSE format

\* formatFor: "error" stands for the thrown 'Could not infer image format'
formatFor(format) ==
  IF format = "" \/ format \notin allowedFormats THEN "error"
  ELSE IF format = "heif" THEN "avif"
  ELSE format

\* the presets of the project (the plugin's `presets` option)
presets ==
  [hero |-> densityPreset(Obj(<<
              <<"density", Arr(<<Num(2), Num(1)>>)>>,
              <<"format", Str("original")>>,
              <<"inferDimensions", Bool(TRUE)>>>>)),
   wide |-> widthPreset(Obj(<<
              <<"widths", Arr(<<Num(400)>>)>>,
              <<"format", Obj(<<<<"webp", Obj(<<>>)>>>>)>>>>)),
   bg   |-> densityPreset(Obj(<<
              <<"density", Arr(<<Num(1)>>)>>,
              <<"format", Str("original")>>,
              <<"isBackgroundImage", Bool(TRUE)>>>>)),
   tint |-> densityPreset(Obj(<<
              <<"density", Arr(<<Num(1)>>)>>,
              <<"format", Str("original")>>,
              <<"isBackgroundImage", Bool(TRUE)>>,
              <<"withImage", Fn("tint")>>>>)),
   none |-> densityPreset(Obj(<<
              <<"density", Arr(<<>>)>>,
              <<"format", Str("original")>>>>))]

PresetNames == DOMAIN presets

(***************************************************************************)
(* Bounds of the model.                                                    *)
(***************************************************************************)
MaxRequests == 2
MaxDevRequests == 1

(***************************************************************************)
(* The state of a session: the maps and the list of apiFactory, the calls  *)
(* in flight, and around them the cache directory and the source files.    *)
(***************************************************************************)
VARIABLES
  config,               \* isBuild, purgeCache, writeToBundle
  requestedImagesById,  \* id -> the generation task of the identity
  imageFilenamesById,   \* id -> the promise of queueImageAndGetFilename
  imageHashesByFile,    \* source file -> the promise of its content hash
  generatedImages,      \* the promises of writeImageFile, in push order
  requests,             \* the generateImage calls of the load hook
  devRequests,          \* the requests of the dev server middleware
  bundle,               \* the generateBundle hook and the purge it starts
  cacheDir,             \* file name -> bytes: the cache directory
  sourceBytes,          \* source file -> the bytes it holds now
  sourceFormat,         \* source file -> the format sharp reads in its header
  generateCalls,        \* id -> invocations of the spec's generate function
  toFileCalls,          \* file name -> invocations of image.toFile
  returnedBytes,        \* file name -> what writeImageFile last returned
  started,              \* module requests made so far
  definition,           \* a preset definition of the project's config file
  presetConfig,         \* the PresetConfig the factory made of it
  identified,           \* the identities of the specs of the preset
  earlier               \* those of the preset before the definition changed

vars == <<config, requestedImagesById, imageFilenamesById, imageHashesByFile,
          generatedImages, requests, devRequests, bundle, cacheDir,
          sourceBytes, sourceFormat, generateCalls, toFileCalls,
          returnedBytes, started, definition, presetConfig, identified,
          earlier>>

\* the variables of a session, and those of the project's config file
session == <<config, requestedImagesById, imageFilenamesById,
             imageHashesByFile, generatedImages, requests, devRequests,
             bundle, cacheDir, sourceBytes, sourceFormat, generateCalls,
             toFileCalls, returnedBytes, started>>
project == <<definition, presetConfig, identified, earlier>>

EmptyMap == [k \in {} |-> 0]
NoCalls == [start |-> 0, infer |-> 0]
callsOf(id) == IF id \in DOMAIN generateCalls THEN generateCalls[id] ELSE NoCalls
toFileCallsOf(f) == IF f \in DOMAIN toFileCalls THEN toFileCalls[f] ELSE 0
Put(map, k, v) == [j \in DOMAIN map \cup {k} |-> IF j = k THEN v ELSE map[j]]

\* errors: the operations of the purge that failed; logged: those of them
\* the plugin has logged; unhandled: the rejections no handler was given
IdleBundle ==
  [pc |-> "idle", snapshot |-> 0, output |-> {}, used |-> {},
   purge |-> "idle", listing |-> {}, rmIssued |-> {}, rmPending |-> {},
   removed |-> {}, errors |-> {}, logged |-> {}, unhandled |-> {}]

Configs ==
  {[isBuild |-> FALSE, purgeCache |-> TRUE, writeToBundle |-> TRUE]}
  \cup [isBuild : {TRUE}, purgeCache : BOOLEAN, writeToBundle : BOOLEAN]

\* a file an earlier build left in the cache directory
StaleFile == "old.sha256[stale].png"
StaleBytes == [input |-> "stale", by |-> <<"", 0>>]
NoBytes == [input |-> "", by |-> <<"", 0>>]

\* the session is given its presets built: nothing is being defined
NoDefinition == [factory |-> "none", props |-> Obj(<<>>)]
NoPreset == [inferDimensions |-> Undefined, isBackgroundImage |-> Undefined,
             image |-> [type |-> Undefined, specs |-> <<>>]]

Init ==
  /\ config \in Configs
  /\ requestedImagesById = EmptyMap
  /\ imageFilenamesById = EmptyMap
  /\ imageHashesByFile = EmptyMap
  /\ generatedImages = <<>>
  /\ requests = <<>>
  /\ devRequests = <<>>
  /\ bundle = IdleBundle
  /\ cacheDir = [f \in {StaleFile} |-> StaleBytes]
  /\ sourceBytes = [f \in SourceFiles |-> "v1"]
  /\ sourceFormat = [f \in SourceFiles |-> metadataFormat(f)]
  /\ generateCalls = EmptyMap
  /\ toFileCalls = EmptyMap
  /\ returnedBytes = EmptyMap
  /\ started = 0
  /\ definition = NoDefinition
  /\ presetConfig = NoPreset
  /\ identified = <<>>
  /\ earlier = <<>>

(***************************************************************************)
(* Scheduling.  JavaScript runs one callback at a time and empties the     *)
(* microtask queue before it takes the next I/O callback.  An action is    *)
(* one event: a hook called by the bundler or the server, or one awaited   *)
(* operation of a collaborator settling, together with every continuation  *)
(* the event makes runnable (a continuation that awaits a promise already  *)
(* settled runs in the same action).  The continuations come first, as     *)
(* operators on the values they read and write.                            *)
(***************************************************************************)
\* what a generateImage call has returned or thrown so far
noResult ==
  [type |-> "none", src |-> "", set |-> "", sourceSet |-> <<>>,
   width |-> Undefined, height |-> Undefined, error |-> "none"]
thrown(message) == [noResult EXCEPT !.type = "error", !.error = message]

specsOf(presetName) == presets[presetName].image.specs
specId(file, presetName, i) ==
  generateImageID(file, specsOf(presetName)[i].args)

\* fn called on every request, whatever the cache holds
alwaysInvokes(cache, id) == TRUE

\* fn called again once the cached task has failed
retriesFailed(cache, id) ==
  id \notin DOMAIN cache \/ cache[id].status = "rejected"

\* requestedImagesById[id] ||= fn(...): fn runs only for an absent identity
invokesGenerate(cache, id) == id \notin DOMAIN cache

\* the synchronous head of getImageSrc for the specs i..n of a preset, in
\* order: the cache and the invocation counts it leaves
RECURSIVE registerSpecs(_, _, _, _, _)
registerSpecs(cache, counts, file, presetName, i) ==
  IF i > Len(specsOf(presetName)) THEN <<cache, counts>>
  ELSE LET id == specId(file, presetName, i)
           had == IF id \in DOMAIN counts THEN counts[id] ELSE NoCalls
       IN  IF invokesGenerate(cache, id)
             THEN registerSpecs(
                    Put(cache, id, [status |-> "pending",
                                    by |-> <<presetName, i>>,
                                    file |-> file]),
                    Put(counts, id, [had EXCEPT !.start = @ + 1]),
                    file, presetName, i + 1)
             ELSE registerSpecs(cache, counts, file, presetName, i + 1)

\* what getImageSrc returns in serve mode: pluginId + id
virtualURL(file, presetName, i) ==
  LET args == specsOf(presetName)[i].args
  IN  <<VIRTUAL_ID, idBase(file, args), idExtension(args)>>

\* getImageSrc up to its first await (build), or to its return (serve)
newSlot(isBuild, file, presetName, i) ==
  IF isBuild
    THEN [id |-> specId(file, presetName, i), pc |-> "image", url |-> ""]
    ELSE [id |-> specId(file, presetName, i), pc |-> "done",
          url |-> Flat(encodeURI(virtualURL(file, presetName, i)))]

\* getImageSrc woken when the task resolves, and left waiting when it fails
resumesOnSuccessOnly(slot, tasks) ==
  IF slot.pc = "image" /\ tasks[slot.id].status = "resolved"
    THEN [slot EXCEPT !.pc = "filename"]
    ELSE slot

\* getImageSrc going on to the file name whether the task resolved or failed
proceedsOnFailure(slot, tasks) ==
  IF slot.pc = "image" /\ tasks[slot.id].status # "pending"
    THEN [slot EXCEPT !.pc = "filename"]
    ELSE slot

\* getImageSrc after `await requestedImagesById[id]`
afterImage(slot, tasks) ==
  IF slot.pc = "image" /\ tasks[slot.id].status # "pending"
    THEN [slot EXCEPT !.pc = IF tasks[slot.id].status = "rejected"
                               THEN "failed" ELSE "filename"]
    ELSE slot

\* imageFilenamesById[id] ||= queueImageAndGetFilename(...): the head of
\* queueImageAndGetFilename runs only for an absent identity
queuesFilename(memo, id) == id \notin DOMAIN memo

\* getImageSrc after `await imageFilenamesById[id]`: config.base + filename
afterFilename(slot, memo) ==
  IF slot.pc = "filename" /\ memo[slot.id].status # "pending"
    THEN IF memo[slot.id].status = "rejected"
           THEN [slot EXCEPT !.pc = "failed"]
           ELSE [slot EXCEPT !.pc = "done",
                             !.url = Flat(encodeURI(<<base, memo[slot.id].value>>))]
    ELSE slot

\* queueImageAndGetFilename after `await getImageHash(sourceFilename)`
afterHash(entry, hashes) ==
  IF entry.status = "pending" /\ entry.pc = "hash"
       /\ hashes[entry.file].status # "pending"
    THEN IF hashes[entry.file].status = "rejected"
           THEN [entry EXCEPT !.status = "rejected"]
           ELSE [entry EXCEPT !.pc = "format",
                              !.hash = hashes[entry.file].value]
    ELSE entry

\* the results taken from the last spec to the first
lastFirst(slots, specs) ==
  [i \in 1..Len(slots) |->
     <<slots[Len(slots) + 1 - i].url, specs[Len(slots) + 1 - i].condition>>]

\* Promise.all: the results in the order of the specs, whatever the order
\* the promises settled in
promiseAll(slots, specs) ==
  [i \in 1..Len(slots) |-> <<slots[i].url, specs[i].condition>>]

\* s.filter(Boolean).join(' ')
entryText(s) == IF s[2] = "" THEN s[1] ELSE s[1] \o " " \o s[2]

RECURSIVE joinEntries(_, _, _)
joinEntries(sourceSet, wrap, i) ==
  IF i > Len(sourceSet) THEN ""
  ELSE (IF i = 1 THEN "" ELSE ", ")
         \o (IF wrap THEN "url(" \o entryText(sourceSet[i]) \o ")"
             ELSE entryText(sourceSet[i]))
         \o joinEntries(sourceSet, wrap, i + 1)

\* the descriptor of the else branch, returned for a background preset too
plainAttr(sourceSet) ==
  [type |-> "img",
   src |-> sourceSet[Len(sourceSet)][1],
   set |-> joinEntries(sourceSet, FALSE, 1),
   sourceSet |-> sourceSet, width |-> Undefined, height |-> Undefined,
   error |-> "none"]

bgAttr(sourceSet) ==
  [type |-> "bg",
   src |-> "url(" \o sourceSet[Len(sourceSet)][1] \o ")",
   set |-> joinEntries(sourceSet, TRUE, 1),
   sourceSet |-> sourceSet, width |-> Undefined, height |-> Undefined,
   error |-> "none"]

imageAttr(sourceSet, width, height) ==
  [type |-> "img",
   src |-> sourceSet[Len(sourceSet)][1],
   set |-> joinEntries(sourceSet, FALSE, 1),
   sourceSet |-> sourceSet, width |-> width, height |-> height,
   error |-> "none"]

\* does generateImage, past its source set, call lastSrc.generate itself
infersDimensions(preset) ==
  ~Truthy(preset.isBackgroundImage) /\ Truthy(preset.inferDimensions)

\* generateImage after `await Promise.all(...)`: it throws with the first
\* rejection, else goes on to the descriptor
afterSourceSet(req) ==
  LET preset == presets[req.preset]
      sourceSet == promiseAll(req.slots, preset.image.specs)
  IN  IF req.pc # "sourceSet" THEN req
      ELSE IF \E i \in 1..Len(req.slots) : req.slots[i].pc = "failed"
        THEN [req EXCEPT !.pc = "failed",
                         !.result = thrown("generation failed")]
      ELSE IF \E i \in 1..Len(req.slots) : req.slots[i].pc # "done"
        THEN req
      ELSE IF sourceSet = <<>> \/ sourceSet[Len(sourceSet)][1] = ""
        THEN [req EXCEPT !.pc = "failed",
                         !.result = thrown("The image doesn't seem to exist")]
      ELSE IF Truthy(preset.isBackgroundImage)
        THEN [req EXCEPT !.pc = "done", !.result = bgAttr(sourceSet)]
      ELSE IF infersDimensions(preset)
        THEN [req EXCEPT !.pc = "infer"]
      ELSE [req EXCEPT !.pc = "done",
                       !.result = imageAttr(sourceSet, Undefined, Undefined)]

\* the identity whose generate function a request calls directly when it
\* goes on to infer the dimensions
inferredId(req) ==
  specId(req.file, req.preset, Len(specsOf(req.preset)))

RECURSIVE countInferCalls(_, _, _, _)
countInferCalls(counts, before, after, r) ==
  IF r > Len(after) THEN counts
  ELSE IF before[r].pc # "infer" /\ after[r].pc = "infer"
    THEN LET id == inferredId(after[r])
             had == IF id \in DOMAIN counts THEN counts[id] ELSE NoCalls
         IN  countInferCalls(Put(counts, id, [had EXCEPT !.infer = @ + 1]),
                             before, after, r + 1)
    ELSE countInferCalls(counts, before, after, r + 1)

\* the middleware after `await api.getImage(id)`: a rejection leaves the
\* handler as its own rejection, else formatFor(image) is awaited
afterGetImage(dev, tasks) ==
  IF dev.pc = "getImage" /\ tasks[dev.id].status # "pending"
    THEN IF tasks[dev.id].status = "rejected"
           THEN [dev EXCEPT !.pc = "threw", !.error = "generation failed"]
           ELSE [dev EXCEPT !.pc = "formatFor"]
    ELSE dev

\* the name of the first asset alone
firstFileOnly(assets) ==
  IF assets = <<>> THEN {} ELSE {assets[1].name}

\* const usedFiles = new Set(assets.map((a) => a.name))
usedFiles(assets) == {assets[k].name : k \in 1..Len(assets)}

\* generateBundle going on with the assets written so far, the writes in
\* flight not awaited
withoutAwaiting(bnd, writes, purges) ==
  LET images == SelectSeq(SubSeq(writes, 1, bnd.snapshot),
                          LAMBDA w : w.pc = "done")
  IN  IF bnd.pc # "getImages" THEN bnd
      ELSE [bnd EXCEPT
              !.pc = "done",
              !.output = {join(assetsDir, images[k].name) :
                            k \in 1..Len(images)},
              !.used = usedFiles(images),
              !.purge = IF purges THEN "readdir" ELSE "skipped"]

\* generateBundle after `await api.getImages()`: the assets are emitted and
\* purgeCache is called, which returns at once or awaits readdir
afterGetImages(bnd, writes, purges) ==
  LET images == SubSeq(writes, 1, bnd.snapshot)
  IN  IF bnd.pc # "getImages" THEN bnd
      ELSE IF \E k \in 1..Len(images) : images[k].pc = "failed"
        THEN [bnd EXCEPT !.pc = "rejected"]
      ELSE IF \E k \in 1..Len(images) : images[k].pc # "done"
        THEN bnd
      ELSE [bnd EXCEPT
              !.pc = "done",
              !.output = {join(assetsDir, images[k].name) :
                            k \in 1..Len(images)},
              !.used = usedFiles(images),
              !.purge = IF purges THEN "readdir" ELSE "skipped"]

\* one round of continuations over the calls in flight m, each operator
\* the continuations of one await
resumeAfterImage(m, tasks) ==
  [m EXCEPT !.requests =
     [r \in 1..Len(m.requests) |->
        [m.requests[r] EXCEPT !.slots =
           [i \in 1..Len(m.requests[r].slots) |->
              afterImage(m.requests[r].slots[i], tasks)]]]]

\* imageFilenamesById[id] ||= queueImageAndGetFilename(id, filename, image),
\* whose head calls getImageHash: imageHashesByFile[filename] ||= ...
queueImageAndGetFilename(m, tasks) ==
  LET queued == UNION {{m.requests[r].slots[i].id :
                          i \in {j \in 1..Len(m.requests[r].slots) :
                                   /\ m.requests[r].slots[j].pc = "filename"
                                   /\ queuesFilename(m.imageFilenamesById,
                                                     m.requests[r].slots[j].id)}} :
                        r \in 1..Len(m.requests)}
  IN  [m EXCEPT
         !.imageFilenamesById =
           [id \in DOMAIN @ \cup queued |->
              IF id \in DOMAIN @ THEN @[id]
              ELSE [status |-> "pending", pc |-> "hash", value |-> "",
                    hash |-> "", file |-> tasks[id].file]],
         !.imageHashesByFile =
           [f \in DOMAIN @ \cup {tasks[id].file : id \in queued} |->
              IF f \in DOMAIN @ THEN @[f]
              ELSE [status |-> "pending", value |-> ""]]]

resumeAfterHash(m) ==
  [m EXCEPT !.imageFilenamesById =
     [id \in DOMAIN @ |-> afterHash(@[id], m.imageHashesByFile)]]

resumeAfterFilename(m) ==
  [m EXCEPT !.requests =
     [r \in 1..Len(m.requests) |->
        [m.requests[r] EXCEPT !.slots =
           [i \in 1..Len(m.requests[r].slots) |->
              afterFilename(m.requests[r].slots[i], m.imageFilenamesById)]]]]

resumeAfterSourceSet(m) ==
  LET resumed == [r \in 1..Len(m.requests) |-> afterSourceSet(m.requests[r])]
  IN  [m EXCEPT !.requests = resumed,
                !.generateCalls = countInferCalls(@, m.requests, resumed, 1)]

resumeHandlers(m, cfg, tasks, writes) ==
  [m EXCEPT !.devRequests =
              [d \in 1..Len(@) |-> afterGetImage(@[d], tasks)],
            !.bundle = afterGetImages(@, writes, cfg.purgeCache)]

\* every continuation that can run, run: the calls in flight when the
\* microtask queue is empty again.  Each round is computed once, from the
\* value the round before it has left.
RunMicrotasks(m, cfg, tasks, writes) ==
  CHOOSE settled \in
    {resumeHandlers(m5, cfg, tasks, writes) : m5 \in
      {resumeAfterSourceSet(m4) : m4 \in
        {resumeAfterFilename(m3) : m3 \in
          {resumeAfterHash(m2) : m2 \in
            {queueImageAndGetFilename(m1, tasks) : m1 \in
              {resumeAfterImage(m0, tasks) : m0 \in {m}}}}}}} : TRUE

\* the calls in flight of the next state
Becomes(m) ==
  \E next \in {m} :
    /\ requests' = next.requests
    /\ imageFilenamesById' = next.imageFilenamesById
    /\ imageHashesByFile' = next.imageHashesByFile
    /\ generateCalls' = next.generateCalls
    /\ devRequests' = next.devRequests
    /\ bundle' = next.bundle

Resume(tasks, writes, reqs, memo, hashes, counts, devs, bnd) ==
  Becomes(RunMicrotasks([requests |-> reqs, imageFilenamesById |-> memo,
                         imageHashesByFile |-> hashes,
                         generateCalls |-> counts, devRequests |-> devs,
                         bundle |-> bnd],
                        config, tasks, writes))

(***************************************************************************)
(* load and generateImage.                                                 *)
(***************************************************************************)
\* the module ids the bundler asks for: the path and the parameters after
\* the first "?", <<>> when the id has none
ModuleQueries ==
  {<<>>} \cup {<<<<urlParam, v>>>> :
                 v \in PresetNames \cup {"", "thumb", "constructor"}}

\* config.presets is a plain object: presets[name] also finds the members
\* every object inherits from Object.prototype, none of which is a preset
ObjectPrototype ==
  {"constructor", "toString", "valueOf", "hasOwnProperty", "__proto__"}

\* config.presets[presetName], as generateImage tests and uses it
lookupPreset(presetName) ==
  IF presetName \in PresetNames THEN "preset"
  ELSE IF presetName \in ObjectPrototype THEN "inherited"
  ELSE "undefined"

\* parseId: Object.fromEntries(new URLSearchParams(id.slice(index)))
parseId(path, params) ==
  [path |-> path,
   query |-> [k \in {params[i][1] : i \in 1..Len(params)} |->
               params[CHOOSE i \in 1..Len(params) :
                        /\ params[i][1] = k
                        /\ \A j \in i + 1..Len(params) : params[j][1] # k][2]]]

newRequest(file, presetName, pc, result) ==
  [file |-> file, preset |-> presetName, pc |-> pc, slots |-> <<>>,
   result |-> result]

load(path, params) ==
  /\ started < MaxRequests
  /\ bundle.pc = "idle"
  /\ started' = started + 1
  /\ LET parsedId == parseId(path, params)
         presetName == parsedId.query[urlParam]
         file == resolve(root, parsedId.path)
         reg == registerSpecs(requestedImagesById, generateCalls, file,
                              presetName, 1)
     IN  IF urlParam \notin DOMAIN parsedId.query
           THEN /\ requests' = Append(requests,
                                      newRequest(file, "", "skipped", noResult))
                /\ UNCHANGED <<requestedImagesById, generateCalls,
                               imageFilenamesById, imageHashesByFile,
                               devRequests, bundle>>
         ELSE IF presetName = ""
           THEN /\ requests' = Append(requests,
                     newRequest(file, "", "failed",
                                thrown("No preset was defined")))
                /\ UNCHANGED <<requestedImagesById, generateCalls,
                               imageFilenamesById, imageHashesByFile,
                               devRequests, bundle>>
         ELSE IF lookupPreset(presetName) = "undefined"
           THEN /\ requests' = Append(requests,
                     newRequest(file, presetName, "failed",
                                thrown("Unknown image preset")))
                /\ UNCHANGED <<requestedImagesById, generateCalls,
                               imageFilenamesById, imageHashesByFile,
                               devRequests, bundle>>
         ELSE IF lookupPreset(presetName) = "inherited"
           THEN /\ requests' = Append(requests,
                     newRequest(file, presetName, "failed",
                                thrown("TypeError: preset.image is undefined")))
                /\ UNCHANGED <<requestedImagesById, generateCalls,
                               imageFilenamesById, imageHashesByFile,
                               devRequests, bundle>>
         ELSE /\ requestedImagesById' = reg[1]
              /\ Resume(reg[1], generatedImages,
                        Append(requests,
                          [newRequest(file, presetName, "sourceSet", noResult)
                             EXCEPT !.slots =
                               [i \in 1..Len(specsOf(presetName)) |->
                                  newSlot(config.isBuild, file, presetName, i)]]),
                        imageFilenamesById, imageHashesByFile, reg[2],
                        devRequests, bundle)
  /\ UNCHANGED <<project, config, sourceFormat, generatedImages, cacheDir, sourceBytes,
                 toFileCalls, returnedBytes>>

\* the promise of a generate function settles
taskSettles(id, ok) ==
  /\ id \in DOMAIN requestedImagesById
  /\ requestedImagesById[id].status = "pending"
  /\ requestedImagesById' =
       [requestedImagesById EXCEPT ![id].status =
          IF ok THEN "resolved" ELSE "rejected"]
  /\ Resume(requestedImagesById', generatedImages, requests,
            imageFilenamesById, imageHashesByFile, generateCalls,
            devRequests, bundle)
  /\ UNCHANGED <<project, config, sourceFormat, generatedImages, cacheDir, sourceBytes,
                 toFileCalls, returnedBytes, started>>

\* the generate function generateImage called itself, and image.toBuffer,
\* settle
inferSettles(r, ok) ==
  LET req == requests[r]
      specs == presets[req.preset].image.specs
  IN  /\ req.pc = "infer"
      /\ requests' =
           IF ok
             THEN [requests EXCEPT
                     ![r].pc = "done",
                     ![r].result = imageAttr(promiseAll(req.slots, specs),
                                             Str("info.width"),
                                             Str("info.height"))]
             ELSE [requests EXCEPT
                     ![r].pc = "failed",
                     ![r].result = thrown("generation failed")]
      /\ UNCHANGED <<project, config, sourceFormat, requestedImagesById,
                     imageFilenamesById, imageHashesByFile, generatedImages,
                     devRequests, bundle, cacheDir, sourceBytes,
                     generateCalls, toFileCalls, returnedBytes, started>>

(***************************************************************************)
(* getImageHash and queueImageAndGetFilename.                              *)
(***************************************************************************)
\* loadImage(filename).toBuffer().then(getAssetHash) settles
hashSettles(file, ok) ==
  /\ file \in DOMAIN imageHashesByFile
  /\ imageHashesByFile[file].status = "pending"
  /\ Resume(requestedImagesById, generatedImages, requests,
            imageFilenamesById,
            [imageHashesByFile EXCEPT ![file] =
               IF ok THEN [status |-> "resolved",
                           value |-> getAssetHash(sourceBytes[file])]
               ELSE [status |-> "rejected", value |-> ""]],
            generateCalls, devRequests, bundle)
  /\ UNCHANGED <<project, config, sourceFormat, requestedImagesById, generatedImages,
                 cacheDir, sourceBytes, toFileCalls, returnedBytes, started>>

\* a name that leaves the bytes of the source out of the hash
namedByIdentity(id, file, sourceHash, format) ==
  basename(file) \o "." \o getAssetHash(id) \o "." \o format

\* `${base}.${hash}.${format}`
cachedName(id, file, sourceHash, format) ==
  basename(file) \o "." \o getAssetHash(id \o sourceHash) \o "." \o format

\* queueImageAndGetFilename after `await formatFor(image)`: the push of
\* writeImageFile, whose head runs up to its exists check, and the return
formatSettles(id) ==
  LET entry == imageFilenamesById[id]
      format == formatFor(sourceFormat[entry.file])
      filename == cachedName(id, entry.file, entry.hash, format)
  IN  /\ id \in DOMAIN imageFilenamesById
      /\ entry.status = "pending"
      /\ entry.pc = "format"
      /\ IF format = "error"
           THEN /\ UNCHANGED generatedImages
                /\ Resume(requestedImagesById, generatedImages, requests,
                          [imageFilenamesById EXCEPT ![id].status = "rejected"],
                          imageHashesByFile, generateCalls, devRequests, bundle)
           ELSE /\ generatedImages' =
                     Append(generatedImages,
                            [name |-> filename, id |-> id, pc |-> "pending",
                             existed |-> FALSE, source |-> NoBytes])
                /\ Resume(requestedImagesById, generatedImages', requests,
                          [imageFilenamesById EXCEPT
                             ![id] = [@ EXCEPT !.status = "resolved",
                                               !.pc = "done",
                                               !.value = join(assetsDir, filename)]],
                          imageHashesByFile, generateCalls, devRequests, bundle)
      /\ UNCHANGED <<project, config, sourceFormat, requestedImagesById, cacheDir,
                     sourceBytes, toFileCalls, returnedBytes, started>>

(***************************************************************************)
(* writeImageFile: the on-disk cache store.                                *)
(***************************************************************************)
\* the bytes image.toFile writes: the pipeline of the task, run on the
\* bytes the source holds when the pipeline is run
toFileBytes(id) ==
  [input |-> sourceBytes[requestedImagesById[id].file],
   by |-> requestedImagesById[id].by]

\* image.toFile called whether or not the file is there
alwaysCallsToFile(dir, name) == TRUE

\* if (!(await exists(cachedFilename))) image.toFile(cachedFilename)
callsToFile(dir, name) == name \notin DOMAIN dir

\* one writeImageFile call runs: the exists check, image.toFile when the
\* file is not there (wrote: whether toFile succeeds), and the read of the
\* file (read: whether readFile succeeds).  Nothing else touches the file of
\* a pending call: a file name belongs to one identity, an identity is
\* queued once in a session, and purgeCache is only called once getImages
\* has settled.
writeImageFile(k, wrote, read) ==
  LET w == generatedImages[k]
      produces == callsToFile(cacheDir, w.name)
      onDisk == IF produces /\ wrote
                  THEN Put(cacheDir, w.name, toFileBytes(w.id))
                  ELSE cacheDir
      returns == w.name \in DOMAIN onDisk /\ read
  IN  /\ w.pc = "pending"
      /\ produces \/ wrote
      /\ wrote \/ read
      /\ toFileCalls' = IF produces
                          THEN Put(toFileCalls, w.name, toFileCallsOf(w.name) + 1)
                          ELSE toFileCalls
      /\ cacheDir' = onDisk
      /\ generatedImages' =
           IF returns
             THEN [generatedImages EXCEPT ![k].pc = "done",
                                          ![k].existed = ~produces,
                                          ![k].source = onDisk[w.name]]
             ELSE [generatedImages EXCEPT ![k].pc = "failed"]
      /\ returnedBytes' = IF returns
                            THEN Put(returnedBytes, w.name, onDisk[w.name])
                            ELSE returnedBytes
      /\ Resume(requestedImagesById, generatedImages', requests,
                imageFilenamesById, imageHashesByFile, generateCalls,
                devRequests, bundle)
      /\ UNCHANGED <<project, config, sourceFormat, requestedImagesById, sourceBytes,
                     started>>

(***************************************************************************)
(* generateBundle, getImages and purgeCache.                               *)
(***************************************************************************)
Settled(req) == req.pc \in {"done", "failed", "skipped"}

\* the bundler calls the hook once, when every module of the build has
\* been loaded; a load hook that threw has ended the build before
generateBundle ==
  /\ config.isBuild
  /\ bundle.pc = "idle"
  /\ requests # <<>>
  /\ \A r \in 1..Len(requests) : requests[r].pc \in {"done", "skipped"}
  /\ Resume(requestedImagesById, generatedImages, requests,
            imageFilenamesById, imageHashesByFile, generateCalls, devRequests,
            IF ~config.writeToBundle THEN [bundle EXCEPT !.pc = "done"]
            ELSE [bundle EXCEPT !.pc = "getImages",
                                !.snapshot = Len(generatedImages)])
  /\ UNCHANGED <<project, config, sourceFormat, requestedImagesById, generatedImages,
                 cacheDir, sourceBytes, toFileCalls, returnedBytes, started>>

\* every listed file, used or not
everyFile(cachedFiles, used) == cachedFiles

\* cachedFiles.filter((f) => !usedFiles.has(f))
unusedFiles(cachedFiles, used) == cachedFiles \ used

\* await readdir(config.cacheDir) settles; rm is called for every unused
\* file, and none of the calls is awaited.  generateBundle did not await
\* purgeCache either: a rejection of readdir rejects a promise nobody holds
readdirSettles(ok) ==
  /\ bundle.purge = "readdir"
  /\ bundle' =
       IF ok
         THEN [bundle EXCEPT
                 !.purge = "done",
                 !.listing = DOMAIN cacheDir,
                 !.rmIssued = unusedFiles(DOMAIN cacheDir, bundle.used),
                 !.rmPending = unusedFiles(DOMAIN cacheDir, bundle.used)]
         ELSE [bundle EXCEPT !.purge = "rejected",
                             !.errors = @ \cup {"readdir"},
                             !.unhandled = @ \cup {"readdir"}]
  /\ UNCHANGED <<project, config, sourceFormat, requestedImagesById, imageFilenamesById,
                 imageHashesByFile, generatedImages, requests, devRequests,
                 cacheDir, sourceBytes, generateCalls, toFileCalls,
                 returnedBytes, started>>

\* one rm(resolve(config.cacheDir, file), { force: true }) settles
rmSettles(file, ok) ==
  /\ file \in bundle.rmPending
  /\ IF ok
       THEN /\ cacheDir' = [f \in DOMAIN cacheDir \ {file} |-> cacheDir[f]]
            /\ bundle' = [bundle EXCEPT !.rmPending = @ \ {file},
                                        !.removed = @ \cup {file}]
       ELSE /\ bundle' = [bundle EXCEPT !.rmPending = @ \ {file},
                                        !.errors = @ \cup {file},
                                        !.unhandled = @ \cup {file}]
            /\ UNCHANGED cacheDir
  /\ UNCHANGED <<project, config, sourceFormat, requestedImagesById, imageFilenamesById,
                 imageHashesByFile, generatedImages, requests, devRequests,
                 sourceBytes, generateCalls, toFileCalls, returnedBytes,
                 started>>

(***************************************************************************)
(* The dev server middleware and getImage.                                 *)
(***************************************************************************)
\* the URLs a browser asks for: those the descriptors of this session
\* carry, one that names no identity, and the bare prefix
DevURLs ==
  UNION {{encodeURI(virtualURL(requests[r].file, requests[r].preset, i)) :
            i \in 1..Len(requests[r].slots)} :
           r \in {q \in 1..Len(requests) : requests[q].pc = "done"}}
  \cup {<<VIRTUAL_ID, "0badc0de">>, <<VIRTUAL_ID>>}

\* req.url.split(VIRTUAL_ID)[1]
urlId(url) == Flat(Tail(url))

\* the middleware, entered with a URL that starts with VIRTUAL_ID, up to
\* its await of getImage
middleware(url) ==
  /\ ~config.isBuild
  /\ Len(devRequests) < MaxDevRequests
  /\ url \in DevURLs
  /\ Resume(requestedImagesById, generatedImages, requests,
            imageFilenamesById, imageHashesByFile, generateCalls,
            Append(devRequests,
              IF urlId(url) = ""
                THEN [id |-> "", pc |-> "threw", error |-> "No id provided",
                      status |-> 200, contentType |-> "", url |-> Flat(url)]
              ELSE IF urlId(url) \notin DOMAIN requestedImagesById
                THEN [id |-> urlId(url), pc |-> "threw",
                      error |-> "not found in cache", status |-> 200,
                      contentType |-> "", url |-> Flat(url)]
              ELSE [id |-> urlId(url), pc |-> "getImage", error |-> "none",
                    status |-> 200, contentType |-> "", url |-> Flat(url)]),
            bundle)
  /\ UNCHANGED <<project, config, sourceFormat, requestedImagesById, generatedImages,
                 cacheDir, sourceBytes, toFileCalls, returnedBytes, started>>

\* await formatFor(image) settles in the middleware; the image is piped
devFormatSettles(d) ==
  LET dev == devRequests[d]
      format == formatFor(sourceFormat[requestedImagesById[dev.id].file])
  IN  /\ dev.pc = "formatFor"
      /\ devRequests' =
           IF format = "error"
             THEN [devRequests EXCEPT
                     ![d].pc = "threw",
                     ![d].error = "Could not infer image format"]
             ELSE [devRequests EXCEPT ![d].pc = "streamed",
                                      ![d].contentType = "image/" \o format]
      /\ UNCHANGED <<project, config, sourceFormat, requestedImagesById,
                     imageFilenamesById, imageHashesByFile, generatedImages,
                     requests, bundle, cacheDir, sourceBytes, generateCalls,
                     toFileCalls, returnedBytes, started>>

(***************************************************************************)
(* The environment: the process ends and the next one starts on the same   *)
(* cache directory; between two processes a source file may be edited.     *)
(***************************************************************************)
Quiescent ==
  /\ \A r \in 1..Len(requests) : Settled(requests[r])
  /\ \A id \in DOMAIN requestedImagesById :
       requestedImagesById[id].status # "pending"
  /\ \A id \in DOMAIN imageFilenamesById :
       imageFilenamesById[id].status # "pending"
  /\ \A f \in DOMAIN imageHashesByFile :
       imageHashesByFile[f].status # "pending"
  /\ \A k \in 1..Len(generatedImages) :
       generatedImages[k].pc \in {"done", "failed"}
  /\ \A d \in 1..Len(devRequests) :
       devRequests[d].pc \in {"threw", "streamed"}
  /\ bundle.pc # "getImages"
  /\ bundle.purge # "readdir"
  /\ bundle.rmPending = {}

\* apiFactory(config, VIRTUAL_ID) of a new process
newSession(edited) ==
  /\ requests # <<>>
  /\ started < MaxRequests
  /\ Quiescent
  /\ requestedImagesById' = EmptyMap
  /\ imageFilenamesById' = EmptyMap
  /\ imageHashesByFile' = EmptyMap
  /\ generatedImages' = <<>>
  /\ requests' = <<>>
  /\ devRequests' = <<>>
  /\ bundle' = IdleBundle
  /\ generateCalls' = EmptyMap
  /\ sourceBytes' = [f \in SourceFiles |->
                       IF f \in edited THEN "v2" ELSE sourceBytes[f]]
  /\ UNCHANGED <<project, config, sourceFormat, cacheDir, toFileCalls, returnedBytes,
                 started>>

Next ==
  \/ \E path \in RequestPaths, params \in ModuleQueries : load(path, params)
  \/ \E id \in DOMAIN requestedImagesById, ok \in BOOLEAN : taskSettles(id, ok)
  \/ \E r \in 1..Len(requests), ok \in BOOLEAN : inferSettles(r, ok)
  \/ \E file \in DOMAIN imageHashesByFile, ok \in BOOLEAN : hashSettles(file, ok)
  \/ \E id \in DOMAIN imageFilenamesById : formatSettles(id)
  \/ \E k \in 1..Len(generatedImages), wrote, read \in BOOLEAN :
       writeImageFile(k, wrote, read)
  \/ generateBundle
  \/ \E ok \in BOOLEAN : readdirSettles(ok)
  \/ \E file \in bundle.rmPending, ok \in BOOLEAN : rmSettles(file, ok)
  \/ \E url \in DevURLs : middleware(url)
  \/ \E d \in 1..Len(devRequests) : devFormatSettles(d)
  \/ \E edited \in SUBSET SourceFiles : newSession(edited)

Spec == Init /\ [][Next]_vars

(***************************************************************************)
(* The collaborators answer: an operation the plugin awaits (the pipeline  *)
(* of a task, the metadata read for the dimensions, the read of the source *)
(* for its hash, the metadata read for the format, the write and the read  *)
(* of the cached file) settles in the end, resolved or rejected.  The      *)
(* bundler and the browser are free to call or not.                        *)
(***************************************************************************)
CollaboratorsAnswer ==
  /\ WF_vars(\E id \in DOMAIN requestedImagesById, ok \in BOOLEAN :
               taskSettles(id, ok))
  /\ WF_vars(\E r \in 1..Len(requests), ok \in BOOLEAN : inferSettles(r, ok))
  /\ WF_vars(\E file \in DOMAIN imageHashesByFile, ok \in BOOLEAN :
               hashSettles(file, ok))
  /\ WF_vars(\E id \in DOMAIN imageFilenamesById : formatSettles(id))
  /\ WF_vars(\E k \in 1..Len(generatedImages), wrote, read \in BOOLEAN :
               writeImageFile(k, wrote, read))

\* the sessions of the dev server and of a build with the default options
InitLive == Init /\ config.purgeCache /\ config.writeToBundle

SpecLive == InitLive /\ [][Next]_vars /\ CollaboratorsAnswer

(***************************************************************************)
(* writeImageFile step by step.  Its three awaits (exists, image.toFile,   *)
(* readFile) settle one at a time, so that the steps of purgeCache (the    *)
(* listing, then one rm per unused file) and the steps of the writes of    *)
(* the build interleave as the hooks let them.  The cache directory holds  *)
(* what an earlier build left: a file no variant names, alone, with the    *)
(* file of the first variant of every preset, or with the files of all.    *)
(***************************************************************************)
PriorVariants ==
  UNION {{<<f, p, i>> : i \in 1..Len(specsOf(p))} :
           f \in SourceFiles, p \in PresetNames}

priorFile(v) ==
  cachedName(specId(v[1], v[2], v[3]), v[1], getAssetHash("v1"),
             formatFor(metadataFormat(v[1])))

\* the cache directory an earlier build of the variants left
cacheOf(variants) ==
  [f \in {StaleFile} \cup {priorFile(v) : v \in variants} |->
     IF f = StaleFile THEN StaleBytes
     ELSE LET v == CHOOSE u \in variants : priorFile(u) = f
          IN  [input |-> "v1", by |-> <<v[2], v[3]>>]]

PriorCaches ==
  {cacheOf({}), cacheOf({v \in PriorVariants : v[3] = 1}),
   cacheOf(PriorVariants)}

InitPurge ==
  /\ config = [isBuild |-> TRUE, purgeCache |-> TRUE, writeToBundle |-> TRUE]
  /\ requestedImagesById = EmptyMap
  /\ imageFilenamesById = EmptyMap
  /\ imageHashesByFile = EmptyMap
  /\ generatedImages = <<>>
  /\ requests = <<>>
  /\ devRequests = <<>>
  /\ bundle = IdleBundle
  /\ cacheDir \in PriorCaches
  /\ sourceBytes = [f \in SourceFiles |-> "v1"]
  /\ sourceFormat = [f \in SourceFiles |-> metadataFormat(f)]
  /\ generateCalls = EmptyMap
  /\ toFileCalls = EmptyMap
  /\ returnedBytes = EmptyMap
  /\ started = 0
  /\ definition = NoDefinition
  /\ presetConfig = NoPreset
  /\ identified = <<>>
  /\ earlier = <<>>

\* await exists(cachedFilename) settles: image.toFile is called when the
\* file is not there, readFile when it is
existsSettles(k) ==
  LET w == generatedImages[k]
      produces == callsToFile(cacheDir, w.name)
  IN  /\ w.pc = "pending"
      /\ generatedImages' =
           [generatedImages EXCEPT ![k].pc = IF produces THEN "toFile"
                                             ELSE "readFile",
                                   ![k].existed = ~produces]
      /\ toFileCalls' = IF produces
                          THEN Put(toFileCalls, w.name, toFileCallsOf(w.name) + 1)
                          ELSE toFileCalls
      /\ UNCHANGED <<project, config, sourceFormat, requestedImagesById,
                     imageFilenamesById, imageHashesByFile, requests,
                     devRequests, bundle, cacheDir, sourceBytes, generateCalls,
                     returnedBytes, started>>

\* await image.toFile(cachedFilename) settles: readFile is called next
toFileSettles(k, ok) ==
  LET w == generatedImages[k]
  IN  /\ w.pc = "toFile"
      /\ cacheDir' = IF ok THEN Put(cacheDir, w.name, toFileBytes(w.id))
                     ELSE cacheDir
      /\ generatedImages' =
           [generatedImages EXCEPT ![k].pc = IF ok THEN "readFile" ELSE "failed"]
      /\ Resume(requestedImagesById, generatedImages', requests,
                imageFilenamesById, imageHashesByFile, generateCalls,
                devRequests, bundle)
      /\ UNCHANGED <<project, config, sourceFormat, requestedImagesById,
                     sourceBytes, toFileCalls, returnedBytes, started>>

\* await readFile(cachedFilename) settles: it rejects when the file is not
\* there any more, and may reject for another reason (ok)
readFileSettles(k, ok) ==
  LET w == generatedImages[k]
      returns == w.name \in DOMAIN cacheDir /\ ok
  IN  /\ w.pc = "readFile"
      /\ generatedImages' =
           IF returns
             THEN [generatedImages EXCEPT ![k].pc = "done",
                                          ![k].source = cacheDir[w.name]]
             ELSE [generatedImages EXCEPT ![k].pc = "failed"]
      /\ returnedBytes' = IF returns
                            THEN Put(returnedBytes, w.name, cacheDir[w.name])
                            ELSE returnedBytes
      /\ Resume(requestedImagesById, generatedImages', requests,
                imageFilenamesById, imageHashesByFile, generateCalls,
                devRequests, bundle)
      /\ UNCHANGED <<project, config, sourceFormat, requestedImagesById,
                     cacheDir, sourceBytes, toFileCalls, started>>

NextPurge ==
  \/ \E path \in RequestPaths, params \in ModuleQueries : load(path, params)
  \/ \E id \in DOMAIN requestedImagesById, ok \in BOOLEAN : taskSettles(id, ok)
  \/ \E r \in 1..Len(requests), ok \in BOOLEAN : inferSettles(r, ok)
  \/ \E file \in DOMAIN imageHashesByFile, ok \in BOOLEAN : hashSettles(file, ok)
  \/ \E id \in DOMAIN imageFilenamesById : formatSettles(id)
  \/ \E k \in 1..Len(generatedImages) : existsSettles(k)
  \/ \E k \in 1..Len(generatedImages), ok \in BOOLEAN : toFileSettles(k, ok)
  \/ \E k \in 1..Len(generatedImages), ok \in BOOLEAN : readFileSettles(k, ok)
  \/ generateBundle
  \/ \E ok \in BOOLEAN : readdirSettles(ok)
  \/ \E file \in bundle.rmPending, ok \in BOOLEAN : rmSettles(file, ok)

SpecPurge == InitPurge /\ [][NextPurge]_vars

(***************************************************************************)
(* The sources of a project come in any format: the sessions that infer    *)
(* the format of a generated image (queueImageAndGetFilename in a build,   *)
(* the middleware in serve mode), for every format sharp may read in the   *)
(* header of the source, none ("") and one formatFor does not allow.       *)
(***************************************************************************)
InferredFormats == allowedFormats \cup {"", "svg"}

InitFormat ==
  /\ config \in {[isBuild |-> b, purgeCache |-> TRUE, writeToBundle |-> TRUE] :
                   b \in BOOLEAN}
  /\ requestedImagesById = EmptyMap
  /\ imageFilenamesById = EmptyMap
  /\ imageHashesByFile = EmptyMap
  /\ generatedImages = <<>>
  /\ requests = <<>>
  /\ devRequests = <<>>
  /\ bundle = IdleBundle
  /\ cacheDir = EmptyMap
  /\ sourceBytes = [f \in SourceFiles |-> "v1"]
  /\ sourceFormat \in [SourceFiles -> InferredFormats]
  /\ generateCalls = EmptyMap
  /\ toFileCalls = EmptyMap
  /\ returnedBytes = EmptyMap
  /\ started = 0
  /\ definition = NoDefinition
  /\ presetConfig = NoPreset
  /\ identified = <<>>
  /\ earlier = <<>>

NextFormat ==
  \/ \E path \in RequestPaths, params \in ModuleQueries : load(path, params)
  \/ \E id \in DOMAIN requestedImagesById, ok \in BOOLEAN : taskSettles(id, ok)
  \/ \E r \in 1..Len(requests), ok \in BOOLEAN : inferSettles(r, ok)
  \/ \E file \in DOMAIN imageHashesByFile, ok \in BOOLEAN : hashSettles(file, ok)
  \/ \E id \in DOMAIN imageFilenamesById : formatSettles(id)
  \/ \E url \in DevURLs : middleware(url)
  \/ \E d \in 1..Len(devRequests) : devFormatSettles(d)

SpecFormat == InitFormat /\ [][NextFormat]_vars

(***************************************************************************)
(* The project's config file.  The preset factories and the identity       *)
(* generator are pure: here the project defines a preset (any density or   *)
(* width list within the bounds, in any order, with or without a target    *)
(* format and a withImage hook), the factory builds it, the identities of  *)
(* its specs are generated for a source path, and the project edits the    *)
(* definition into a variant of it.                                        *)
(***************************************************************************)
MaxListLen == 3
MaxDensity == 2
MaxWidthSteps == 2

Lists(S) == UNION {[1..n -> S] : n \in 1..MaxListLen}
Densities == {Num(d) : d \in 1..MaxDensity}
Widths == {Num(600 * k) : k \in 1..MaxWidthSteps}
Formats == {Str("original"), Obj(<<<<"webp", Obj(<<>>)>>>>)}
Hooks == {Undefined, Fn("tint")}
SourcePaths == {"/app/photo.png", "/app/logo.png"}

\* an object literal: an option the project leaves out is no property
Literal(props) == Obj(SelectSeq(props, LAMBDA p : p[2] # Undefined))

DensityDefinition(list, format, hook) ==
  [factory |-> "density",
   props |-> Literal(<<<<"density", Arr(list)>>, <<"format", format>>,
                       <<"withImage", hook>>>>)]
WidthDefinition(widths, format, hook) ==
  [factory |-> "width",
   props |-> Literal(<<<<"widths", widths>>, <<"format", format>>,
                       <<"withImage", hook>>>>)]

Definitions ==
  {DensityDefinition(l, f, h) : l \in Lists(Densities), f \in Formats, h \in Hooks}
  \cup {WidthDefinition(w, f, h) :
          w \in {Arr(l) : l \in Lists(Widths)} \cup {Str("original")},
          f \in Formats, h \in Hooks}

\* the definitions that differ from d in the format or in the hook at most
\* (d itself among them: the project may leave the definition as it is)
Variants(d) ==
  IF d.factory = "density"
    THEN {DensityDefinition(Get(d.props, "density")[2], f, h) :
            f \in Formats, h \in Hooks}
    ELSE {WidthDefinition(Get(d.props, "widths"), f, h) :
            f \in Formats, h \in Hooks}

\* the definition d with one more option written out
WithOption(d, key, value) == [d EXCEPT !.props = Set(@, key, value)]

\* the definitions that differ from d by one option the project writes out:
\* a default given explicitly, or a base dimension
Edits(d) ==
  IF d.factory = "density"
    THEN {WithOption(d, "inferDimensions", Bool(FALSE)),
          WithOption(d, "isBackgroundImage", Bool(FALSE)),
          WithOption(d, "baseWidth", Num(300)),
          WithOption(d, "baseHeight", Num(200)),
          WithOption(WithOption(d, "baseWidth", Num(300)),
                     "baseHeight", Num(200))}
    ELSE {WithOption(d, "inferDimensions", Bool(FALSE)),
          WithOption(d, "density", Num(1))}

InitPreset ==
  /\ config = [isBuild |-> FALSE, purgeCache |-> TRUE, writeToBundle |-> TRUE]
  /\ requestedImagesById = EmptyMap
  /\ imageFilenamesById = EmptyMap
  /\ imageHashesByFile = EmptyMap
  /\ generatedImages = <<>>
  /\ requests = <<>>
  /\ devRequests = <<>>
  /\ bundle = IdleBundle
  /\ cacheDir = EmptyMap
  /\ sourceBytes = [f \in SourceFiles |-> "v1"]
  /\ sourceFormat = [f \in SourceFiles |-> metadataFormat(f)]
  /\ generateCalls = EmptyMap
  /\ toFileCalls = EmptyMap
  /\ returnedBytes = EmptyMap
  /\ started = 0
  /\ definition \in Definitions
  /\ presetConfig = NoPreset
  /\ identified = <<>>
  /\ earlier = <<>>

\* the config file calls the factory on the definition
definePreset ==
  /\ definition # NoDefinition
  /\ presetConfig = NoPreset
  /\ presetConfig' = IF definition.factory = "density"
                       THEN densityPreset(definition.props)
                       ELSE widthPreset(definition.props)
  /\ UNCHANGED <<session, definition, identified, earlier>>

\* the head of getImageSrc for every spec of the preset, in spec order:
\* generateImageID(url, args) and fn(loadImage(url), args)
identify(url) ==
  /\ presetConfig # NoPreset
  /\ identified = <<>>
  /\ identified' =
       [i \in 1..Len(presetConfig.image.specs) |->
          [url |-> url,
           of |-> definition,
           condition |-> presetConfig.image.specs[i].condition,
           args |-> presetConfig.image.specs[i].args,
           id |-> generateImageID(url, presetConfig.image.specs[i].args),
           image |-> generate(presetConfig.image.specs[i].generate,
                              loadImage(url),
                              presetConfig.image.specs[i].args,
                              metadataWidth(url))]]
  /\ UNCHANGED <<session, definition, presetConfig, earlier>>

\* the project edits the definition, once
redefine(d) ==
  /\ identified # <<>>
  /\ earlier = <<>>
  /\ d \in Variants(definition) \cup Edits(definition)
  /\ definition' = d
  /\ presetConfig' = NoPreset
  /\ earlier' = identified
  /\ identified' = <<>>
  /\ UNCHANGED session

NextPreset ==
  \/ definePreset
  \/ \E url \in SourcePaths : identify(url)
  \/ \E d \in Variants(definition) \cup Edits(definition) : redefine(d)

SpecPreset == InitPreset /\ [][NextPreset]_vars

(***************************************************************************)
(* The properties of the preset factories.                                 *)
(***************************************************************************)
\* the whole number a list element holds
ValueOf(v) == v[2][1]

\* specs has one spec per element of list, the conditions are the elements
\* printed with the unit, and the elements ascend along the specs
AscendingConditions(specs, list, unit) ==
  /\ Len(specs) = Len(list)
  /\ \E p \in Permutations(1..Len(list)) :
       /\ \A i \in 1..Len(list) :
            specs[i].condition = ToString(ValueOf(list[p[i]])) \o unit
       /\ \A i, j \in 1..Len(list) :
            i < j => ValueOf(list[p[i]]) <= ValueOf(list[p[j]])

\* C6: for every density list, in whatever order it is given, densityPreset
\* yields one spec per density and the conditions are "{density}x" in
\* ascending numeric order of the densities
C6_DensityConditionsAscend ==
  (definition.factory = "density" /\ presetConfig # NoPreset) =>
    AscendingConditions(presetConfig.image.specs,
                        Get(definition.props, "density")[2], "x")

\* the list [2, 1, 2] has been built into the specs 1x, 2x, 2x
C6_Witness ==
  /\ definition.factory = "density"
  /\ Get(definition.props, "density") = Arr(<<Num(2), Num(1), Num(2)>>)
  /\ Len(presetConfig.image.specs) = 3
  /\ [i \in 1..3 |-> presetConfig.image.specs[i].condition]
       = <<"1x", "2x", "2x">>

\* C7: for every list of pixel widths, in whatever order it is given,
\* widthPreset yields one spec per width, ascending by numeric width, with
\* the condition "{width}w", so the last spec is that of the largest width;
\* widths 'original' yields a single spec with an empty condition
C7_WidthConditionsAscend ==
  (definition.factory = "width" /\ presetConfig # NoPreset) =>
    IF Get(definition.props, "widths") = Str("original")
      THEN /\ Len(presetConfig.image.specs) = 1
           /\ presetConfig.image.specs[1].condition = ""
      ELSE /\ AscendingConditions(presetConfig.image.specs,
                                  Get(definition.props, "widths")[2], "w")
           /\ \A i \in 1..Len(presetConfig.image.specs) :
                /\ Get(presetConfig.image.specs[i].args, "width")[1] = "number"
                /\ presetConfig.image.specs[i].condition
                     = ToString(ValueOf(Get(presetConfig.image.specs[i].args,
                                            "width"))) \o "w"
                /\ ValueOf(Get(presetConfig.image.specs[i].args, "width"))
                     <= ValueOf(Get(presetConfig.image.specs[
                                      Len(presetConfig.image.specs)].args,
                                    "width"))

\* the list [1200, 600, 1200] has been built into 600w, 1200w, 1200w
C7_Witness ==
  /\ definition.factory = "width"
  /\ Get(definition.props, "widths") = Arr(<<Num(1200), Num(600), Num(1200)>>)
  /\ Len(presetConfig.image.specs) = 3
  /\ [i \in 1..3 |-> presetConfig.image.specs[i].condition]
       = <<"600w", "1200w", "1200w">>

(***************************************************************************)
(* The properties of the identity generator.                               *)
(***************************************************************************)
\* every generateImageID call made so far: its url, its args, its result
Identified ==
  {identified[i] : i \in 1..Len(identified)}
  \cup {earlier[i] : i \in 1..Len(earlier)}

\* C9: generateImageID is an injective function of (sourcePath, args): two
\* calls return the same identity if and only if their source paths are
\* equal and their args are equal
C9_IdentityInjective ==
  \A a, b \in Identified :
    (a.id = b.id) <=> (a.url = b.url /\ a.args = b.args)

\* C10: the identity is the digest followed by "." and the name of the
\* target format whenever the args' format is not "original", and the
\* digest alone for the format "original"
C10_IdentityExtension ==
  \A a \in Identified :
    a.id = IF Get(Get(a.args, "format"), "type") = Str("original")
             THEN idBase(a.url, a.args)
             ELSE idBase(a.url, a.args) \o "."
                    \o Get(Get(a.args, "format"), "type")[2]

(***************************************************************************)
(* The properties of the generate functions of the density preset.         *)
(***************************************************************************)
\* the densities the definition of a record lists, the one a record's spec
\* is for (its condition names it), and the largest of them
DensitiesOf(rec) == Get(rec.of.props, "density")[2]
RequestedDensity(rec) ==
  CHOOSE d \in {DensitiesOf(rec)[i] : i \in 1..Len(DensitiesOf(rec))} :
    TemplateString(d) \o "x" = rec.condition
MaxRequested(rec) ==
  CHOOSE m \in {DensitiesOf(rec)[i] : i \in 1..Len(DensitiesOf(rec))} :
    \A i \in 1..Len(DensitiesOf(rec)) : ~NumLess(m, DensitiesOf(rec)[i])

\* the options of the resize the pipeline of a record has queued
ResizesOf(rec) ==
  {rec.image.ops[k][2] :
     k \in {j \in 1..Len(rec.image.ops) : rec.image.ops[j][1] = "resize"}}

HasBase(rec) ==
  \/ Get(rec.of.props, "baseWidth") # Undefined
  \/ Get(rec.of.props, "baseHeight") # Undefined

\* floor(d / maxDensity * n), undefined when the dimension n is not given
ScaledBy(rec, n) ==
  IF n = Undefined THEN Undefined
  ELSE FloorMul(NumDiv(RequestedDensity(rec), MaxRequested(rec)), n)

\* C11: in densityPreset with a baseWidth and/or a baseHeight, the resize of
\* the spec of density d targets d / maxDensity times the base dimension:
\* the largest density is resized to the base dimensions themselves, every
\* smaller one in proportion
C11_BaseDimensionsScaled ==
  \A rec \in Identified :
    (rec.of.factory = "density" /\ HasBase(rec)) =>
      \E resize \in ResizesOf(rec) :
        /\ Get(resize, "width")
             = ScaledBy(rec, Get(rec.of.props, "baseWidth"))
        /\ Get(resize, "height")
             = ScaledBy(rec, Get(rec.of.props, "baseHeight"))

\* C12: in densityPreset with no base dimension, the spec of density d
\* resizes the source to its intrinsic width times d itself
C12_RawDensityScalesIntrinsic ==
  \A rec \in Identified :
    (rec.of.factory = "density" /\ ~HasBase(rec)) =>
      \E resize \in ResizesOf(rec) :
        Get(resize, "width")
          = FloorMul(RequestedDensity(rec), metadataWidth(rec.url))


(***************************************************************************)
(* The properties of the args the presets hand to the identity generator.  *)
(***************************************************************************)
\* d with one optional field written out with the value it defaults to
ExplicitDefaults(d) ==
  IF d.factory = "density"
    THEN {WithOption(d, "inferDimensions", Bool(FALSE)),
          WithOption(d, "isBackgroundImage", Bool(FALSE))}
    ELSE {WithOption(d, "inferDimensions", Bool(FALSE)),
          WithOption(d, "density", Num(1))}

\* C13: a definition that leaves an optional field out and the definition
\* that gives the field its default value produce, spec by spec, the same
\* args, hence the same identity for the same source
C13_ExplicitDefaultSameIdentity ==
  \A i \in 1..Len(earlier), j \in 1..Len(identified) :
    (/\ identified[j].of \in ExplicitDefaults(earlier[i].of)
     /\ identified[j].of # earlier[i].of
     /\ i = j
     /\ identified[j].url = earlier[i].url) =>
      /\ identified[j].args = earlier[i].args
      /\ identified[j].id = earlier[i].id

(***************************************************************************)
(* The properties of a session.                                            *)
(***************************************************************************)
\* the getImageSrc calls made so far, as <<request, spec>>
Slots ==
  UNION {{<<r, i>> : i \in 1..Len(requests[r].slots)} :
           r \in 1..Len(requests)}
slotOf(s) == requests[s[1]].slots[s[2]]
Callers(id) == {s \in Slots : slotOf(s).id = id}

\* C1: within a session, however many getImageSrc calls resolve to one
\* identity and however they interleave, getImageSrc invokes the spec's
\* generate function exactly once for the identity, and the result of every
\* caller derives from that one task
C1_SingleFlight ==
  /\ \A id \in DOMAIN generateCalls : generateCalls[id].start <= 1
  /\ \A id \in DOMAIN requestedImagesById : callsOf(id).start = 1
  /\ \A s \in Slots :
       /\ slotOf(s).id \in DOMAIN requestedImagesById
       /\ config.isBuild =>
            LET status == requestedImagesById[slotOf(s).id].status
            IN  /\ slotOf(s).pc = "image" <=> status = "pending"
                /\ slotOf(s).pc \in {"filename", "done"} => status = "resolved"
                /\ status = "rejected" => slotOf(s).pc = "failed"
  /\ \A s, t \in Slots :
       slotOf(s).id = slotOf(t).id =>
         /\ slotOf(s).pc = slotOf(t).pc
         /\ slotOf(s).url = slotOf(t).url

\* two requests of a build have resolved one identity, both got their URL,
\* and the generate function was invoked once
C1_Witness ==
  /\ config.isBuild
  /\ \E id \in DOMAIN requestedImagesById :
       /\ \E s, t \in Callers(id) : s[1] # t[1]
       /\ \A s \in Callers(id) : slotOf(s).pc = "done"
       /\ generateCalls[id].start = 1

\* the requests that await the task of id have observed its failure
ObservedFailure(reqs, devs, id) ==
  /\ config.isBuild =>
       \A r \in 1..Len(reqs) :
         (\E i \in 1..Len(reqs[r].slots) : reqs[r].slots[i].id = id) =>
           /\ reqs[r].pc = "failed"
           /\ reqs[r].result.type = "error"
           /\ \A i \in 1..Len(reqs[r].slots) :
                reqs[r].slots[i].id = id => reqs[r].slots[i].pc = "failed"
  /\ \A d \in 1..Len(devs) :
       devs[d].id = id =>
         devs[d].pc = "threw" /\ devs[d].error = "generation failed"

\* C2: once the generation task of an identity has failed, the failure
\* stays cached for the rest of the session: every request that awaits the
\* identity afterwards (a build-mode generateImage, a dev-server getImage)
\* observes the failure, and getImageSrc never invokes the generate
\* function again for the identity
C2_FailureCached ==
  /\ [](\A id \in DOMAIN requestedImagesById :
          requestedImagesById[id].status = "rejected" =>
            ObservedFailure(requests, devRequests, id))
  /\ [][\A id \in DOMAIN requestedImagesById :
          (/\ requestedImagesById[id].status = "rejected"
           /\ id \in DOMAIN requestedImagesById') =>
            /\ requestedImagesById'[id].status = "rejected"
            /\ generateCalls'[id].start = generateCalls[id].start
            /\ ObservedFailure(requests', devRequests', id)]_vars

\* two requests of a build awaited an identity whose one task failed, and
\* both failed
C2_Witness ==
  /\ config.isBuild
  /\ \E id \in DOMAIN requestedImagesById :
       /\ requestedImagesById[id].status = "rejected"
       /\ \E s, t \in Callers(id) : s[1] # t[1]
       /\ \A s \in Callers(id) : requests[s[1]].pc = "failed"
       /\ generateCalls[id].start = 1

\* one writeImageFile call, from before it runs to after it has settled:
\* a file of that name that is there is read and returned as it is, with no
\* call of image.toFile; else image.toFile is called once, and what is
\* returned is the file it wrote
EnsuredOnce(w, after) ==
  LET name == w.name
      callsAfter == IF name \in DOMAIN toFileCalls'
                      THEN toFileCalls'[name] ELSE 0
  IN  IF name \in DOMAIN cacheDir
        THEN /\ callsAfter = toFileCallsOf(name)
             /\ cacheDir' = cacheDir
             /\ after.pc = "done" =>
                  /\ after.existed
                  /\ after.source = cacheDir[name]
                  /\ name \in DOMAIN returnedBytes =>
                       after.source = returnedBytes[name]
        ELSE /\ callsAfter = toFileCallsOf(name) + 1
             /\ after.pc = "done" =>
                  /\ ~after.existed
                  /\ name \in DOMAIN cacheDir'
                  /\ after.source = cacheDir'[name]

\* C3: writeImageFile is idempotent on the cache directory: when a file of
\* that name is there, image.toFile is not invoked and the bytes of the file
\* are returned; otherwise image.toFile writes the file first and the bytes
\* are read back.  So two calls for one file name (the source unchanged)
\* invoke image.toFile at most once and return the same bytes
C3_WriteIdempotent ==
  /\ [](\A name \in DOMAIN returnedBytes \cap DOMAIN cacheDir :
          returnedBytes[name] = cacheDir[name])
  /\ [][\A k \in 1..Len(generatedImages) :
          (/\ k <= Len(generatedImages')
           /\ generatedImages[k].pc = "pending"
           /\ generatedImages'[k].pc # "pending") =>
            EnsuredOnce(generatedImages[k], generatedImages'[k])]_vars

\* a call of a second session has found the file a call of the first
\* session wrote: image.toFile ran once and both returned the same bytes
C3_Witness ==
  \E k \in 1..Len(generatedImages) :
    /\ generatedImages[k].pc = "done"
    /\ generatedImages[k].existed
    /\ toFileCallsOf(generatedImages[k].name) = 1
    /\ generatedImages[k].source = returnedBytes[generatedImages[k].name]

\* C4: with purging enabled, purgeCache deletes exactly the listing of the
\* cache directory minus the names of the assets: rm is called for every
\* listed file that is no asset, and for no file that is an asset
C4_PurgeExactly ==
  /\ bundle.purge \in {"readdir", "done", "rejected"} => config.purgeCache
  /\ bundle.purge = "done" =>
       /\ bundle.rmIssued = {f \in bundle.listing : f \notin bundle.used}
       /\ bundle.removed \cup bundle.rmPending \cup bundle.errors
            = bundle.rmIssued
       /\ (bundle.rmPending = {} /\ bundle.errors = {}) =>
            DOMAIN cacheDir \cap bundle.listing
              = bundle.listing \cap bundle.used
  /\ bundle.removed \cap bundle.used = {}
  /\ bundle.used \cap bundle.listing \subseteq DOMAIN cacheDir

\* the purge of a build has run to its end: of the listed files the ones
\* the build emitted are there and the others, two at least, are deleted
C4_Witness ==
  /\ bundle.purge = "done"
  /\ bundle.rmPending = {}
  /\ bundle.errors = {}
  /\ bundle.used # {}
  /\ bundle.used \subseteq bundle.listing
  /\ Cardinality(bundle.removed) >= 2
  /\ bundle.removed = bundle.listing \ bundle.used

\* C5: whatever the order the tasks of the specs of a request complete in,
\* the entries of the returned srcset / imageSet are in the order of the
\* preset's specs, and src is the URL of the last spec
C5_SourceSetInSpecOrder ==
  \A r \in 1..Len(requests) :
    requests[r].pc \in {"infer", "done"} =>
      LET specs == specsOf(requests[r].preset)
          slots == requests[r].slots
          result == requests[r].result
          entries == [i \in 1..Len(specs) |-> <<slots[i].url, specs[i].condition>>]
      IN  /\ \A i \in 1..Len(specs) :
               slots[i].id = specId(requests[r].file, requests[r].preset, i)
          /\ requests[r].pc = "done" =>
               /\ result.sourceSet = entries
               /\ result.set = joinEntries(entries, result.type = "bg", 1)
               /\ result.src = IF result.type = "bg"
                                 THEN "url(" \o slots[Len(specs)].url \o ")"
                                 ELSE slots[Len(specs)].url

\* a build request of two specs has returned its descriptor, and the file
\* of the second spec was queued before the file of the first
C5_Witness ==
  \E r \in 1..Len(requests) :
    /\ config.isBuild
    /\ requests[r].pc = "done"
    /\ Len(requests[r].slots) = 2
    /\ requests[r].slots[1].id # requests[r].slots[2].id
    /\ Len(generatedImages) >= 2
    /\ generatedImages[1].id = requests[r].slots[2].id
    /\ requests[r].result.src = requests[r].slots[2].url
    /\ requests[r].result.sourceSet[1][2] = "1x"
    /\ requests[r].result.sourceSet[2][2] = "2x"

\* C8: with inferDimensions set, reading the dimensions of the largest spec
\* reuses the single-flight task of the spec's identity: generateImage
\* invokes the generate function no more than getImageSrc has done
C8_InferReusesTask ==
  \A id \in DOMAIN generateCalls :
    generateCalls[id].start + generateCalls[id].infer <= 1

\* C14: generateImage fails with the missing-preset error when the preset
\* parameter is empty, and with the unknown-preset error when its value
\* names no configured preset; in both cases the caller gets the error, no
\* spec of any preset is requested and no generation task is started
C14_PresetResolved ==
  /\ \A r \in 1..Len(requests) :
       (requests[r].pc # "skipped" /\ requests[r].preset \notin PresetNames) =>
         /\ requests[r].pc = "failed"
         /\ requests[r].result.type = "error"
         /\ requests[r].result.error =
              IF requests[r].preset = "" THEN "No preset was defined"
              ELSE "Unknown image preset"
         /\ requests[r].slots = <<>>
  /\ \A id \in DOMAIN requestedImagesById :
       \E r \in 1..Len(requests) :
         /\ requests[r].preset \in PresetNames
         /\ requests[r].preset = requestedImagesById[id].by[1]
         /\ requests[r].file = requestedImagesById[id].file

\* C15: a preset whose density or width list is empty is rejected when the
\* preset is built: no configured preset is without specs, and no request
\* that names a configured preset fails at generateImage for want of a
\* source-set entry
C15_EmptyListRejectedWhenBuilt ==
  \A r \in 1..Len(requests) :
    requests[r].preset \in PresetNames =>
      /\ specsOf(requests[r].preset) # <<>>
      /\ requests[r].result.error # "The image doesn't seem to exist"

\* C16: generateImage returns a 'bg' descriptor, its src the URL of the
\* last spec wrapped as url(...) and its imageSet made of wrapped entries,
\* if and only if the preset has isBackgroundImage true; otherwise it
\* returns an 'img' descriptor whose src is the bare URL and whose srcset
\* holds bare entries
C16_BackgroundIffFlag ==
  \A r \in 1..Len(requests) :
    requests[r].pc = "done" =>
      LET flagged == presets[requests[r].preset].isBackgroundImage = Bool(TRUE)
          slots == requests[r].slots
          result == requests[r].result
      IN  /\ result.type = "bg" <=> flagged
          /\ result.type = "img" <=> ~flagged
          /\ result.src = IF flagged
                            THEN "url(" \o slots[Len(slots)].url \o ")"
                            ELSE slots[Len(slots)].url
          /\ result.set = joinEntries(result.sourceSet, flagged, 1)

\* one session has returned a 'bg' descriptor for a background preset and
\* an 'img' descriptor for a preset without the flag
C16_Witness ==
  \E r, q \in 1..Len(requests) :
    /\ requests[r].pc = "done"
    /\ requests[q].pc = "done"
    /\ requests[r].preset = "bg"
    /\ requests[r].result.type = "bg"
    /\ requests[r].result.src = "url(" \o requests[r].slots[1].url \o ")"
    /\ requests[q].preset = "wide"
    /\ requests[q].result.type = "img"
    /\ requests[q].result.src = requests[q].slots[1].url

\* the format formatFor is to return for an inferred format it allows
FormatName(format) == IF format = "heif" THEN "avif" ELSE format

\* C17: formatFor returns 'avif' for an image whose inferred format is
\* 'heif', the inferred format itself for every other allowed format, and
\* fails with the format-inference error when the inferred format is absent
\* or not allowed: seen in the file name queueImageAndGetFilename makes of
\* it and in the Content-Type the middleware sets with it
C17_FormatAliased ==
  /\ \A id \in DOMAIN imageFilenamesById :
       LET entry == imageFilenamesById[id]
           inferred == sourceFormat[entry.file]
           allowed == inferred \in allowedFormats
       IN  /\ entry.status = "resolved" =>
                /\ allowed
                /\ entry.value =
                     join(assetsDir, basename(entry.file) \o "."
                            \o getAssetHash(id \o entry.hash) \o "."
                            \o FormatName(inferred))
           /\ (entry.status = "rejected" /\ entry.pc = "format") => ~allowed
           /\ ~allowed => entry.status # "resolved"
  /\ \A d \in 1..Len(devRequests) :
       LET dev == devRequests[d]
           inferred == sourceFormat[requestedImagesById[dev.id].file]
           allowed == inferred \in allowedFormats
       IN  /\ dev.pc = "streamed" =>
                /\ allowed
                /\ dev.contentType = "image/" \o FormatName(inferred)
           /\ dev.error = "Could not infer image format" =>
                dev.pc = "threw" /\ ~allowed
           /\ (dev.id \in DOMAIN requestedImagesById /\ ~allowed) =>
                dev.pc # "streamed"

\* a build has named the file of a heif source .avif
C17_Witness ==
  \E id \in DOMAIN imageFilenamesById :
    /\ sourceFormat[imageFilenamesById[id].file] = "heif"
    /\ imageFilenamesById[id].status = "resolved"
    /\ \E k \in 1..Len(generatedImages) :
         /\ generatedImages[k].id = id
         /\ generatedImages[k].name =
              cachedName(id, imageFilenamesById[id].file,
                         imageFilenamesById[id].hash, "avif")

\* C18: in serve mode a dev request for an id the session does not know, or
\* whose generation task failed, is answered with status 404, and the error
\* does not leave the request handler as its own failure
C18_DevFailureAnswered404 ==
  \A d \in 1..Len(devRequests) :
    (/\ devRequests[d].id # ""
     /\ \/ devRequests[d].id \notin DOMAIN requestedImagesById
        \/ requestedImagesById[devRequests[d].id].status = "rejected") =>
      /\ devRequests[d].status = 404
      /\ devRequests[d].pc # "threw"

\* the generation task of a spec of request r has failed
TransformFailed(r) ==
  \E i \in 1..Len(requests[r].slots) :
    requestedImagesById[requests[r].slots[i].id].status = "rejected"

\* C19: a transform failure of any spec of a request makes generateImage
\* fail for the request, in build mode and in serve mode alike: no returned
\* descriptor holds the URL of a variant whose generation task failed
C19_TransformFailureFails ==
  \A r \in 1..Len(requests) :
    TransformFailed(r) =>
      /\ requests[r].pc = "failed"
      /\ requests[r].result.type = "error"

\* C19 amended: in build mode a transform failure of any spec of a request
\* makes generateImage fail for the request, and no returned descriptor
\* holds the URL of a variant whose generation task failed
C19_BuildTransformFailureFails ==
  config.isBuild =>
    \A r \in 1..Len(requests) :
      /\ TransformFailed(r) =>
           /\ requests[r].pc = "failed"
           /\ requests[r].result.type = "error"
           /\ requests[r].result.src = ""
           /\ requests[r].result.sourceSet = <<>>
      /\ requests[r].pc \in {"infer", "done"} =>
           \A i \in 1..Len(requests[r].slots) :
             /\ requestedImagesById[requests[r].slots[i].id].status = "resolved"
             /\ requests[r].slots[i].url # ""

\* a build request of two specs has failed: the task of one spec failed
\* and the task of the other resolved
C19_Witness ==
  /\ config.isBuild
  /\ \E r \in 1..Len(requests) :
       /\ requests[r].pc = "failed"
       /\ Len(requests[r].slots) = 2
       /\ \E i, j \in 1..2 :
            /\ requestedImagesById[requests[r].slots[i].id].status = "rejected"
            /\ requestedImagesById[requests[r].slots[j].id].status = "resolved"

\* C20: a filesystem failure while writing or reading the cached file of
\* one variant fails that variant's generation task only: the requests that
\* asked for the variant observe it, and generateBundle still emits the
\* assets of the other variants
C20_WriteFailureIsolated ==
  \A k \in 1..Len(generatedImages) :
    generatedImages[k].pc = "failed" =>
      /\ \A r \in 1..Len(requests) :
           (\E i \in 1..Len(requests[r].slots) :
              requests[r].slots[i].id = generatedImages[k].id) =>
             requests[r].pc = "failed"
      /\ bundle.pc # "rejected"
      /\ (bundle.pc = "done" /\ config.writeToBundle) =>
           \A j \in 1..Len(generatedImages) :
             generatedImages[j].pc = "done" =>
               join(assetsDir, generatedImages[j].name) \in bundle.output

\* C21: a failure of the directory listing or of one file deletion during
\* purgeCache is logged and does not fail the build: the other unreferenced
\* files are still deleted, and no error leaves purgeCache or generateBundle
\* unhandled
C21_PurgeFailuresLogged ==
  /\ bundle.errors \subseteq bundle.logged
  /\ bundle.unhandled = {}
  /\ bundle.errors # {} => bundle.pc = "done"
  /\ (bundle.purge = "done" /\ bundle.rmPending = {}) =>
       bundle.removed = bundle.rmIssued \ bundle.errors

C23_MaterializedBeforeReturn ==
  config.isBuild =>
    \A r \in 1..Len(requests) :
      requests[r].pc = "done" =>
        \A i \in 1..Len(requests[r].slots) :
          \E k \in 1..Len(generatedImages) :
            /\ generatedImages[k].id = requests[r].slots[i].id
            /\ generatedImages[k].pc = "done"
            /\ generatedImages[k].name \in DOMAIN cacheDir

\* the assets of the session are all written, and the bundle holds one
\* output per asset, under assetsDir
AllEmitted ==
  /\ \A k \in 1..Len(generatedImages) : generatedImages[k].pc = "done"
  /\ bundle.output = {join(assetsDir, generatedImages[k].name) :
                        k \in 1..Len(generatedImages)}

\* the purge has been started, against the names of all the assets
PurgedAgainstAll ==
  /\ bundle.purge \in {"readdir", "done", "rejected"}
  /\ bundle.used = {generatedImages[k].name : k \in 1..Len(generatedImages)}
  /\ bundle.rmIssued \cap bundle.used = {}

\* C24 as stated: in every completed build, whatever the configuration,
\* generateBundle has emitted every generated asset and has run the purge
\* against the names of all of them
C24_EmitThenPurgeAlways ==
  bundle.pc = "done" => AllEmitted /\ PurgedAgainstAll

\* C24, amended: in every completed build whose configuration enables
\* writeToBundle and purgeCache, generateBundle first emits every generated
\* asset and then runs the purge, exactly once, against the names of all of
\* the emitted assets
C24_EmitThenPurgeWhenEnabled ==
  /\ []((config.writeToBundle /\ config.purgeCache /\ bundle.pc = "done") =>
          AllEmitted /\ PurgedAgainstAll)
  /\ [][(/\ config.writeToBundle /\ config.purgeCache
         /\ bundle'.purge = "readdir" /\ bundle.purge # "readdir") =>
          /\ bundle.purge = "idle"
          /\ bundle.pc \in {"idle", "getImages"}
          /\ bundle'.pc = "done"
          /\ AllEmitted']_vars
  /\ [][(bundle.purge \in {"done", "rejected"} /\ bundle'.purge = "readdir")
          => FALSE]_vars

\* a build with both options on has emitted two assets and its purge has
\* listed the directory and called rm
C24_Witness ==
  /\ config.writeToBundle /\ config.purgeCache
  /\ bundle.pc = "done"
  /\ Cardinality(bundle.output) >= 2
  /\ bundle.purge = "done"
  /\ bundle.rmIssued # {}

\* the writeImageFile call k of the session found its file in the cache
\* directory, left there by an earlier build of the same source bytes
FoundFromEarlier(k) ==
  /\ generatedImages[k].pc = "done"
  /\ generatedImages[k].existed
  /\ generatedImages[k].source.input =
       sourceBytes[requestedImagesById[generatedImages[k].id].file]

\* C25 as stated: in a build where the cached file of a variant exists from
\* an earlier build of the same unchanged source, the spec's generate
\* function is not invoked for the variant and the prior file is reused
C25_FoundFileSkipsGenerate ==
  config.isBuild =>
    \A k \in 1..Len(generatedImages) :
      FoundFromEarlier(k) =>
        /\ callsOf(generatedImages[k].id).start = 0
        /\ generatedImages[k].source = cacheDir[generatedImages[k].name]

\* C25, amended: in a build where the cached file of a variant exists from
\* an earlier build of the same unchanged source, the existence check skips
\* the write: image.toFile is not invoked for the variant and the prior
\* file is reused as it is, while the spec's generate function has been
\* invoked once for the variant, as for any identity new to the session
C25_FoundFileSkipsWrite ==
  [][\A k \in 1..Len(generatedImages) :
       (/\ k <= Len(generatedImages')
        /\ generatedImages[k].pc = "pending"
        /\ generatedImages'[k].pc # "pending"
        /\ generatedImages[k].name \in DOMAIN cacheDir) =>
         /\ toFileCalls' = toFileCalls
         /\ cacheDir' = cacheDir
         /\ callsOf(generatedImages[k].id).start = 1
         /\ generatedImages'[k].pc = "done" =>
              /\ generatedImages'[k].existed
              /\ generatedImages'[k].source = cacheDir[generatedImages[k].name]]_vars

\* a build found the file an earlier build wrote from the same source: the
\* generate function ran once in this session, image.toFile once in all
C25_Witness ==
  /\ config.isBuild
  /\ \E k \in 1..Len(generatedImages) :
       /\ FoundFromEarlier(k)
       /\ callsOf(generatedImages[k].id).start = 1
       /\ toFileCallsOf(generatedImages[k].name) = 1

\* C26: in serve mode, a dev request that carries a URL generateImage has
\* returned resolves through getImage to the task registered for the
\* variant: the id taken from the requested URL is the identity of the
\* variant, a key of the session's request cache, for "original" and for
\* converted formats alike
C26_ReturnedURLResolves ==
  ~config.isBuild =>
    \A d \in 1..Len(devRequests), r \in 1..Len(requests) :
      requests[r].pc = "done" =>
        \A i \in 1..Len(requests[r].slots) :
          devRequests[d].url = requests[r].slots[i].url =>
            /\ devRequests[d].id = requests[r].slots[i].id
            /\ devRequests[d].id \in DOMAIN requestedImagesById
            /\ devRequests[d].error # "not found in cache"

\* C27: provided every operation of a collaborator settles in the end, every
\* generateImage call returns a descriptor or throws in the end, however
\* many calls in flight share an identity: a call that awaits the task
\* another call started is never left waiting
C27_RequestsSettle ==
  \A r \in 1..MaxRequests :
    (r <= Len(requests) /\ ~Settled(requests[r]))
      ~> (r > Len(requests) \/ Settled(requests[r]))

\* two calls awaited the task that the first of them started, and both
\* have returned
C27_Witness ==
  /\ config.isBuild
  /\ \E id \in DOMAIN requestedImagesById :
       /\ \E s, t \in Callers(id) : s[1] # t[1]
       /\ \A s \in Callers(id) : requests[s[1]].pc = "done"
       /\ callsOf(id).start = 1

\* the pipeline the generate function of spec i of a preset builds for a
\* source: generate(loadImage(filename), args)
imageOf(file, presetName, i) ==
  generate(specsOf(presetName)[i].generate, loadImage(file),
           specsOf(presetName)[i].args, metadataWidth(file))

\* C28: two variant specs share one task (one identity) only if they apply
\* the same transform: the image a caller awaits is the one its own spec's
\* generate function builds, also when two presets of one source differ in
\* their withImage hook alone
C28_SharedTaskSameTransform ==
  \A s \in Slots :
    slotOf(s).id \in DOMAIN requestedImagesById =>
      imageOf(requests[s[1]].file,
              requestedImagesById[slotOf(s).id].by[1],
              requestedImagesById[slotOf(s).id].by[2])
        = imageOf(requests[s[1]].file, requests[s[1]].preset, s[2])

\* the identities for which a getImageSrc call of the build has returned
\* a URL
Requested == {slotOf(s).id : s \in {t \in Slots : slotOf(t).pc = "done"}}

\* the assets getImages resolves to
Assets == {k \in 1..Len(generatedImages) : generatedImages[k].pc = "done"}

\* C29: in a build, once no generation is pending, getImages holds exactly
\* one asset for every identity requested with success in the session, and
\* every URL of a descriptor is config.base followed by the fileName of
\* exactly one of the assets
C29_OneAssetPerIdentity ==
  (config.isBuild /\ Quiescent) =>
    /\ \A id \in Requested :
         Cardinality({k \in Assets : generatedImages[k].id = id}) = 1
    /\ \A k \in Assets : generatedImages[k].id \in Requested
    /\ \A s \in Slots :
         slotOf(s).pc = "done" =>
           Cardinality({k \in Assets :
                          slotOf(s).url =
                            base \o join(assetsDir, generatedImages[k].name)})
             = 1

\* the cache files the assets of the session refer to, written or not yet
SessionFiles == {generatedImages[k].name : k \in 1..Len(generatedImages)}

====
